---- MODULE Spec2Model ----
(***************************************************************************)
(* Model of the MCP gateway of monetized-interview-rag-atxp                *)
(* (src/mcp-server/mcp_server_node.js): the JSON-RPC dispatcher            *)
(* app.post('/'), its payment gate (requirePayment) and its delegation to  *)
(* the RAG backend (fetch); and of the caller (the agent's main, in        *)
(* src/unnamed/part_001), which connects to the gateway and calls ask_rag  *)
(* once per run.                                                           *)
(*                                                                         *)
(* Every inbound request runs the async handler in a handler slot of its   *)
(* own.  The handler runs synchronously up to its first await; every await *)
(* (requirePayment, fetch, response.json) is a suspension point at which   *)
(* the handlers of other requests may run.                                 *)
(*                                                                         *)
(* JavaScript values are modelled as strings: undefined is the string      *)
(* "undefined" (which is also what a template literal prints for it), a    *)
(* BigNumber is the decimal string it was built from, and a text built by  *)
(* a template literal is the sequence of its pieces.                       *)
(***************************************************************************)
EXTENDS Integers, Sequences, FiniteSets, TLC

\* Number of requests the gateway receives in a run; all of them may be in
\* flight at the same time.
NumHandlers == 2

Handlers == 1..NumHandlers

\* JavaScript's undefined: a missing property, a property JSON.stringify drops.
Undef == "undefined"

-----------------------------------------------------------------------------
(* The inputs: request bodies, collaborator outcomes *)

\* Correlation ids a caller may send; Undef is a request without an id.
Ids == {Undef, "1", "2"}

\* req.body.method: the four methods the dispatcher knows, one it does not
\* know, and a body without a method.
Methods == {"initialize", "notifications/initialized", "tools/list",
            "tools/call", "resources/list", Undef}

\* params.name of a tools/call.
ToolNames == {"ask_rag", "other_tool", Undef}

\* arguments.question: absent, empty, or a question.
Questions == {Undef, "", "What is the answer?"}

\* arguments.mode: absent, the three enumerated modes, and one that is not
\* enumerated.
ModeValues == {Undef, "qa", "summary", "auto", "fast"}

\* A parsed JSON request body.  hasParams: body.params is an object;
\* hasArgs: params.arguments is an object.  Fields the body does not carry
\* are Undef.
MkReq(method, id, hasParams, name, hasArgs, question, mode) ==
    [method |-> method, id |-> id, hasParams |-> hasParams, name |-> name,
     hasArgs |-> hasArgs, question |-> question, mode |-> mode]

\* Requests without params (the dispatcher reads params only in tools/call).
PlainRequests ==
    {MkReq(m, id, FALSE, Undef, FALSE, Undef, Undef) : m \in Methods, id \in Ids}

\* tools/call requests with a params object and no arguments object.
CallNoArgsRequests ==
    {MkReq("tools/call", id, TRUE, n, FALSE, Undef, Undef) :
        id \in Ids, n \in ToolNames}

\* tools/call requests with params.arguments.
CallRequests ==
    {MkReq("tools/call", id, TRUE, n, TRUE, q, m) :
        id \in Ids, n \in {"ask_rag", "other_tool"}, q \in Questions,
        m \in ModeValues}

Requests == PlainRequests \cup CallNoArgsRequests \cup CallRequests

NoRequest == MkReq(Undef, Undef, FALSE, Undef, FALSE, Undef, Undef)

\* paymentError.message of a rejected requirePayment.
PaymentFailures == {"Payment via ATXP is required", "No user found"}

\* response.status of the backend's reply; response.ok is status in 200..299.
BackendStatuses == {"200", "500"}

ResponseOk(status) == status = "200"

\* Parsed body of a 2xx backend reply: {mode, answer}.
BackendAnswers ==
    {[mode |-> m, answer |-> "42"] : m \in {"qa", "auto"}}

\* error.message of a fetch that fails in transport, and of a response.json()
\* that cannot parse the body (node-fetch's FetchError texts).
FetchFailureMessage == <<"request to http://localhost:8000/ask/ failed">>

JsonFailureMessage == <<"invalid json response body at http://localhost:8000/ask/">>

-----------------------------------------------------------------------------
(* Response envelopes *)

\* JSON-RPC error codes the handler uses.
MethodNotFound == -32601

InternalError == -32603

\* res.json({jsonrpc, id, result}): the body of a success reply.
ResultEnvelope(id, result) ==
    [jsonrpc |-> "2.0", id |-> id, result |-> result]

\* Mutant of ErrorEnvelope: an error reply that also carries a result key.
ErrorEnvelopeWithResult(id, code, message) ==
    [jsonrpc |-> "2.0", id |-> id, result |-> Undef,
     error |-> [code |-> code, message |-> message]]

\* res.json({jsonrpc, id, error: {code, message}}): the body of an error reply.
ErrorEnvelope(id, code, message) ==
    [jsonrpc |-> "2.0", id |-> id, error |-> [code |-> code, message |-> message]]

\* An HTTP response: res.json(envelope) carries one JSON body.
JsonResponse(envelope) == [status |-> 200, body |-> <<envelope>>]

\* res.status(200).end(): an HTTP response without a body.
EmptyResponse == [status |-> 200, body |-> <<>>]

\* result of initialize.
InitializeResult ==
    [protocolVersion |-> "2024-11-05",
     capabilities |-> [tools |-> {}],
     serverInfo |-> [name |-> "interview-rag-server", version |-> "1.0.0"]]

\* The one tool the gateway advertises.
AskRagTool ==
    [name |-> "ask_rag",
     description |-> "Ask questions about uploaded documents",
     inputSchema |->
        [type |-> "object",
         properties |->
            [question |-> [type |-> "string", description |-> "Your question"],
             mode |-> [type |-> "string",
                       enum |-> <<"auto", "qa", "summary">>,
                       description |-> "Answer mode",
                       default |-> "auto"]],
         required |-> <<"question">>]]

\* result of tools/list.
ToolsListResult == [tools |-> <<AskRagTool>>]

\* The price table of ask_rag: BigNumber('0.01') etc., by their decimal text.
PriceTable == [qa |-> "0.01", summary |-> "0.05", auto |-> "0.05"]

\* Mutant of prices: one price for every mode.
pricesFlat(mode) == IF mode \in DOMAIN PriceTable THEN "0.05" ELSE Undef

\* prices[mode]: a mode that is no key of the table reads undefined.
prices(mode) == IF mode \in DOMAIN PriceTable THEN PriceTable[mode] ELSE Undef

\* Mutant of ResolvedMode: the default of a missing mode is qa.
ResolvedModeDefaultQa(r) == IF r.mode = Undef THEN "qa" ELSE r.mode

\* const { question, mode = 'auto' } = args: the default applies to a missing
\* mode only.
ResolvedMode(r) == IF r.mode = Undef THEN "auto" ELSE r.mode

\* `Payment failed: ${paymentError.message}`
PaymentFailedMessage(reason) == <<"Payment failed: ", reason>>

\* The reply of catch (paymentError).
PaymentErrorEnvelope(id, reason) ==
    ErrorEnvelope(id, InternalError, PaymentFailedMessage(reason))

\* Mutant of CatchEnvelope: the outer catch does not echo the id.
CatchEnvelopeWithoutId(r, message) == ErrorEnvelope(Undef, InternalError, message)

\* The reply of the outer catch (error): id is read again from req.body.
CatchEnvelope(r, message) == ErrorEnvelope(r.id, InternalError, message)

\* new Error(`RAG backend returned ${response.status}`).message
BackendStatusMessage(status) == <<"RAG backend returned ", status>>

\* The TypeError of destructuring undefined.
DestructureMessage(what) == <<"Cannot destructure property of undefined: ", what>>

\* `Question: ${question}\nMode: ${data.mode}\n\nAnswer:\n${data.answer}`
AnswerText(question, data) ==
    <<"Question: ", question, "\nMode: ", data.mode, "\n\nAnswer:\n", data.answer>>

\* result of a successful ask_rag.
AskRagResult(question, data) ==
    [content |-> <<[type |-> "text", text |-> AnswerText(question, data)]>>]

\* JSON.stringify({ question, mode }): the body posted to the backend.
BackendBody(r) == [question |-> r.question, mode |-> ResolvedMode(r)]

-----------------------------------------------------------------------------
(* State *)

VARIABLES
    pc,     \* pc[h]: where handler h is: idle, awaitPayment, awaitFetch,
            \*        awaitJson, done
    req,    \* req[h]: req.body of the request handler h serves
    log,    \* log[h]: what handler h did, in order: its calls of the payment
            \*         collaborator and of the backend, their outcomes, and
            \*         the HTTP responses it sent
    server, \* the gateway process and its module-level bindings: state
            \*         (loading, listening, exited), ATXP_CONNECTION, exitCode
    caller  \* caller[k]: the k-th run of the caller process

vars == <<pc, req, log, server, caller>>

\* Values of ATXP_CONNECTION_STRING in a process's environment: not set, set
\* to the empty string, set to a connection string.
EnvValues == {Undef, "", "https://accounts.atxp.ai?connection_token=t"}

\* !value of a string or undefined.
Falsy(value) == value \in {Undef, ""}

Event(op, arg) == [op |-> op, arg |-> arg]

\* await requirePayment({ price: prices[mode] })
RequirePaymentCall(r) == Event("requirePayment", prices(ResolvedMode(r)))

\* fetch(RAG_ASK_ENDPOINT, { method: 'POST', body })
FetchCall(r) == Event("fetch", BackendBody(r))

Send(response) == Event("send", response)

\* The events of one kind in a log.
Calls(l, op) == SelectSeq(l, LAMBDA e : e.op = op)

\* The handler up to its first await or its reply: the next pc and the events.
Finish(response) == [pc |-> "done", log |-> <<Send(response)>>]

AskRag(r) ==
    IF ~r.hasArgs
    THEN Finish(JsonResponse(CatchEnvelope(r, DestructureMessage("question"))))
    ELSE [pc |-> "awaitPayment", log |-> <<RequirePaymentCall(r)>>]

\* Mutant of ToolsCall: every tool name is served as ask_rag.
ToolsCallWithoutNameCheck(r) ==
    IF ~r.hasParams
    THEN Finish(JsonResponse(CatchEnvelope(r, DestructureMessage("name"))))
    ELSE AskRag(r)

ToolsCall(r) ==
    IF ~r.hasParams
    THEN Finish(JsonResponse(CatchEnvelope(r, DestructureMessage("name"))))
    ELSE IF r.name = "ask_rag"
    THEN AskRag(r)
    ELSE Finish(JsonResponse(
            ErrorEnvelope(r.id, MethodNotFound, <<"Unknown tool: ", r.name>>)))

\* Mutant of Dispatch: tools/list is served behind the payment gate.
DispatchListBehindGate(r) ==
    IF r.method = "initialize"
    THEN Finish(JsonResponse(ResultEnvelope(r.id, InitializeResult)))
    ELSE IF r.method = "notifications/initialized"
    THEN Finish(EmptyResponse)
    ELSE IF r.method = "tools/list"
    THEN [pc |-> "awaitPayment", log |-> <<RequirePaymentCall(r)>>]
    ELSE IF r.method = "tools/call"
    THEN ToolsCall(r)
    ELSE Finish(JsonResponse(
            ErrorEnvelope(r.id, MethodNotFound, <<"Unknown method: ", r.method>>)))

Dispatch(r) ==
    IF r.method = "initialize"
    THEN Finish(JsonResponse(ResultEnvelope(r.id, InitializeResult)))
    ELSE IF r.method = "notifications/initialized"
    THEN Finish(EmptyResponse)
    ELSE IF r.method = "tools/list"
    THEN Finish(JsonResponse(ResultEnvelope(r.id, ToolsListResult)))
    ELSE IF r.method = "tools/call"
    THEN ToolsCall(r)
    ELSE Finish(JsonResponse(
            ErrorEnvelope(r.id, MethodNotFound, <<"Unknown method: ", r.method>>)))

\* Neither process has started; no request has arrived.
Init ==
    /\ pc = [h \in Handlers |-> "idle"]
    /\ req = [h \in Handlers |-> NoRequest]
    /\ log = [h \in Handlers |-> <<>>]
    /\ server = [state |-> "loading", ATXP_CONNECTION |-> Undef, exitCode |-> Undef]
    /\ caller = <<>>

\* Mutant of GatewayStart: the gateway listens whatever the credential is.
GatewayStartWithoutCheck(value) ==
    /\ server.state = "loading"
    /\ server' = [state |-> "listening", ATXP_CONNECTION |-> value, exitCode |-> Undef]
    /\ UNCHANGED <<pc, req, log, caller>>

\* The gateway module loads: it reads ATXP_CONNECTION_STRING, exits with code
\* 1 when it is missing or empty, and otherwise listens.
GatewayStart(value) ==
    /\ server.state = "loading"
    /\ server' = IF Falsy(value)
                 THEN [state |-> "exited", ATXP_CONNECTION |-> value, exitCode |-> "1"]
                 ELSE [state |-> "listening", ATXP_CONNECTION |-> value,
                       exitCode |-> Undef]
    /\ UNCHANGED <<pc, req, log, caller>>

\* Mutant of Receive: initialize is accepted once; a second initialize is
\* answered with an error.
ReceiveInitializeOnce(h, r) ==
    /\ server.state = "listening"
    /\ pc[h] = "idle"
    /\ UNCHANGED <<server, caller>>
    /\ req' = [req EXCEPT ![h] = r]
    /\ pc' = [pc EXCEPT ![h] = Dispatch(r).pc]
    /\ log' = [log EXCEPT ![h] =
                 IF /\ r.method = "initialize"
                    /\ \E g \in Handlers : req[g].method = "initialize"
                 THEN <<Send(JsonResponse(
                          ErrorEnvelope(r.id, InternalError, <<"Already initialized">>)))>>
                 ELSE Dispatch(r).log]

\* Mutant of Receive: an authorization another invocation obtained is reused,
\* and the ask_rag call goes to the backend without a payment check of its own.
ReceiveReusingAuthorization(h, r) ==
    /\ server.state = "listening"
    /\ pc[h] = "idle"
    /\ UNCHANGED <<server, caller>>
    /\ req' = [req EXCEPT ![h] = r]
    /\ IF /\ Dispatch(r).pc = "awaitPayment"
          /\ \E g \in Handlers : Calls(log[g], "paymentOk") # <<>>
       THEN /\ pc' = [pc EXCEPT ![h] = "awaitFetch"]
            /\ log' = [log EXCEPT ![h] = <<FetchCall(r)>>]
       ELSE /\ pc' = [pc EXCEPT ![h] = Dispatch(r).pc]
            /\ log' = [log EXCEPT ![h] = Dispatch(r).log]

\* A request arrives and its handler runs to its first await or to its reply.
Receive(h, r) ==
    /\ server.state = "listening"
    /\ pc[h] = "idle"
    /\ UNCHANGED <<server, caller>>
    /\ req' = [req EXCEPT ![h] = r]
    /\ pc' = [pc EXCEPT ![h] = Dispatch(r).pc]
    /\ log' = [log EXCEPT ![h] = Dispatch(r).log]

\* requirePayment resolves: the handler goes on to call the backend.
PaymentResolves(h) ==
    /\ pc[h] = "awaitPayment"
    /\ pc' = [pc EXCEPT ![h] = "awaitFetch"]
    /\ log' = [log EXCEPT ![h] =
                 @ \o <<Event("paymentOk", Undef), FetchCall(req[h])>>]
    /\ UNCHANGED <<req, server, caller>>

\* Mutant of PaymentRejects: the handler records the pending authorization
\* of the request in a module-level binding.
PaymentRejectsRecordingPending(h, reason) ==
    /\ pc[h] = "awaitPayment"
    /\ pc' = [pc EXCEPT ![h] = "done"]
    /\ log' = [log EXCEPT ![h] =
                 @ \o <<Event("paymentFailed", reason),
                        Send(JsonResponse(PaymentErrorEnvelope(req[h].id, reason)))>>]
    /\ server' = [k \in DOMAIN server \cup {"pending"} |->
                    IF k = "pending" THEN req[h].id ELSE server[k]]
    /\ UNCHANGED <<req, caller>>

\* Mutant of PaymentRejects: catch (paymentError) replies and does not
\* return, so the handler goes on to call the backend.
PaymentRejectsFallsThrough(h, reason) ==
    /\ pc[h] = "awaitPayment"
    /\ pc' = [pc EXCEPT ![h] = "awaitFetch"]
    /\ log' = [log EXCEPT ![h] =
                 @ \o <<Event("paymentFailed", reason),
                        Send(JsonResponse(PaymentErrorEnvelope(req[h].id, reason))),
                        FetchCall(req[h])>>]
    /\ UNCHANGED <<req, server, caller>>

\* requirePayment rejects: catch (paymentError) replies and returns.
PaymentRejects(h, reason) ==
    /\ pc[h] = "awaitPayment"
    /\ pc' = [pc EXCEPT ![h] = "done"]
    /\ log' = [log EXCEPT ![h] =
                 @ \o <<Event("paymentFailed", reason),
                        Send(JsonResponse(PaymentErrorEnvelope(req[h].id, reason)))>>]
    /\ UNCHANGED <<req, server, caller>>

\* Mutant of FetchResolves: response.ok is not checked.
FetchResolvesIgnoringStatus(h, status) ==
    /\ pc[h] = "awaitFetch"
    /\ pc' = [pc EXCEPT ![h] = "awaitJson"]
    /\ log' = [log EXCEPT ![h] = @ \o <<Event("fetchStatus", status)>>]
    /\ UNCHANGED <<req, server, caller>>

\* fetch resolves with a response; a non-2xx status throws to the outer catch.
FetchResolves(h, status) ==
    /\ pc[h] = "awaitFetch"
    /\ IF ResponseOk(status)
       THEN /\ pc' = [pc EXCEPT ![h] = "awaitJson"]
            /\ log' = [log EXCEPT ![h] = @ \o <<Event("fetchStatus", status)>>]
       ELSE /\ pc' = [pc EXCEPT ![h] = "done"]
            /\ log' = [log EXCEPT ![h] =
                         @ \o <<Event("fetchStatus", status),
                                Send(JsonResponse(
                                    CatchEnvelope(req[h], BackendStatusMessage(status))))>>]
    /\ UNCHANGED <<req, server, caller>>

\* fetch rejects (transport failure): the outer catch replies.
FetchRejects(h) ==
    /\ pc[h] = "awaitFetch"
    /\ pc' = [pc EXCEPT ![h] = "done"]
    /\ log' = [log EXCEPT ![h] =
                 @ \o <<Event("fetchFailed", FetchFailureMessage),
                        Send(JsonResponse(CatchEnvelope(req[h], FetchFailureMessage)))>>]
    /\ UNCHANGED <<req, server, caller>>

\* Mutant of JsonResolves: id is kept in a binding all handlers share, so the
\* reply carries the id of the request another handler is serving.
JsonResolvesSharedId(h, data) ==
    /\ pc[h] = "awaitJson"
    /\ pc' = [pc EXCEPT ![h] = "done"]
    /\ LET others == {g \in Handlers \ {h} : pc[g] # "idle"}
           id == IF others = {} THEN req[h].id ELSE req[CHOOSE g \in others : TRUE].id
       IN log' = [log EXCEPT ![h] =
                    @ \o <<Event("backendAnswer", data),
                           Send(JsonResponse(
                               ResultEnvelope(id, AskRagResult(req[h].question, data))))>>]
    /\ UNCHANGED <<req, server, caller>>

\* Mutant of JsonResolves: the reply reports the requested mode, not the mode
\* the backend reports.
JsonResolvesEchoingRequestedMode(h, data) ==
    /\ pc[h] = "awaitJson"
    /\ pc' = [pc EXCEPT ![h] = "done"]
    /\ log' = [log EXCEPT ![h] =
                 @ \o <<Event("backendAnswer", data),
                        Send(JsonResponse(
                            ResultEnvelope(req[h].id,
                                AskRagResult(req[h].question,
                                    [data EXCEPT !.mode = ResolvedMode(req[h])]))))>>]
    /\ UNCHANGED <<req, server, caller>>

\* response.json() resolves: the handler replies with the formatted answer.
JsonResolves(h, data) ==
    /\ pc[h] = "awaitJson"
    /\ pc' = [pc EXCEPT ![h] = "done"]
    /\ log' = [log EXCEPT ![h] =
                 @ \o <<Event("backendAnswer", data),
                        Send(JsonResponse(
                            ResultEnvelope(req[h].id,
                                           AskRagResult(req[h].question, data))))>>]
    /\ UNCHANGED <<req, server, caller>>

\* Mutant of JsonRejects: the rejection escapes the handler and no response
\* is sent.
JsonRejectsUnhandled(h) ==
    /\ pc[h] = "awaitJson"
    /\ pc' = [pc EXCEPT ![h] = "crashed"]
    /\ log' = [log EXCEPT ![h] = @ \o <<Event("jsonFailed", JsonFailureMessage)>>]
    /\ UNCHANGED <<req, server, caller>>

\* response.json() rejects (unparsable body): the outer catch replies.
JsonRejects(h) ==
    /\ pc[h] = "awaitJson"
    /\ pc' = [pc EXCEPT ![h] = "done"]
    /\ log' = [log EXCEPT ![h] =
                 @ \o <<Event("jsonFailed", JsonFailureMessage),
                        Send(JsonResponse(CatchEnvelope(req[h], JsonFailureMessage)))>>]
    /\ UNCHANGED <<req, server, caller>>

\* The gateway serving requests of any caller.
Next ==
    \/ \E value \in EnvValues : GatewayStart(value)
    \/ \E h \in Handlers :
          \/ \E r \in Requests : Receive(h, r)
          \/ PaymentResolves(h)
          \/ \E reason \in PaymentFailures : PaymentRejects(h, reason)
          \/ \E status \in BackendStatuses : FetchResolves(h, status)
          \/ FetchRejects(h)
          \/ \E data \in BackendAnswers : JsonResolves(h, data)
          \/ JsonRejects(h)

Spec == Init /\ [][Next]_vars

\* The collaborators of an in-flight handler return or fail sooner or later,
\* and Node's event loop then runs the handler's continuation.
Resume(h) ==
    \/ PaymentResolves(h)
    \/ \E reason \in PaymentFailures : PaymentRejects(h, reason)
    \/ \E status \in BackendStatuses : FetchResolves(h, status)
    \/ FetchRejects(h)
    \/ \E data \in BackendAnswers : JsonResolves(h, data)
    \/ JsonRejects(h)

FairSpec == Spec /\ \A h \in Handlers : WF_vars(Resume(h))

-----------------------------------------------------------------------------
(* What a handler has done so far *)

\* The prices handler h requested from the payment collaborator.
Paid(h) == Calls(log[h], "requirePayment")

\* The requests handler h sent to the backend.
Asked(h) == Calls(log[h], "fetch")

\* The HTTP responses handler h sent.
Sent(h) == Calls(log[h], "send")

\* The payment gate returned success / failure to handler h.
GateOk(h) == Calls(log[h], "paymentOk") # <<>>

GateFailed(h) == Calls(log[h], "paymentFailed") # <<>>

\* The backend failed handler h: a non-2xx status or a transport failure.
BackendFailed(h) ==
    \/ \E k \in 1..Len(log[h]) :
          log[h][k].op = "fetchStatus" /\ ~ResponseOk(log[h][k].arg)
    \/ Calls(log[h], "fetchFailed") # <<>>

\* Positions of the events of one kind in the log of handler h.
At(h, op) == {k \in 1..Len(log[h]) : log[h][k].op = op}

\* r invokes ask_rag with an arguments object.
IsAskRag(r) ==
    r.method = "tools/call" /\ r.hasParams /\ r.name = "ask_rag" /\ r.hasArgs

IsError(envelope) == "error" \in DOMAIN envelope

IsResult(envelope) == "result" \in DOMAIN envelope

\* Handler h has sent exactly one response, a JSON envelope.
OneEnvelope(h) == Len(Sent(h)) = 1 /\ Len(Sent(h)[1].arg.body) = 1

\* That envelope.
Reply(h) == Sent(h)[1].arg.body[1]

\* Every error envelope a backend failure can produce, for any request.
BackendFailureEnvelopes ==
    {CatchEnvelope(r, m) :
        r \in Requests,
        m \in {BackendStatusMessage(st) : st \in {x \in BackendStatuses : ~ResponseOk(x)}}
              \cup {FetchFailureMessage, JsonFailureMessage}}

Contains(text, piece) == \E k \in 1..Len(text) : text[k] = piece

-----------------------------------------------------------------------------
(* Claims *)

\* C1: for every invocation the backend is called if and only if the payment
\* gate returned success for that same invocation, after that success, and
\* at most once; the success of one invocation never lets another reach the
\* backend.
C1_BackendIffGateOk ==
    \A h \in Handlers :
        /\ (Asked(h) # <<>>) <=> GateOk(h)
        /\ Len(Asked(h)) <= 1
        /\ \A k \in At(h, "fetch") : \E j \in At(h, "paymentOk") : j < k

\* C1 witness: one invocation passed its gate and reached the backend while
\* another was denied and did not.
C1_Witness ==
    \E h, g \in Handlers :
        /\ GateOk(h) /\ Asked(h) # <<>>
        /\ GateFailed(g) /\ Asked(g) = <<>> /\ pc[g] = "done"

\* C2: an ask_rag invocation with mode qa, summary or auto requests
\* authorization exactly once, for 0.01, 0.05 and 0.05 respectively, before
\* any backend call.
C2_PriceOncePerInvocation ==
    \A h \in Handlers :
        (pc[h] # "idle" /\ IsAskRag(req[h]) /\ req[h].mode \in {"qa", "summary", "auto"})
        => /\ Len(Paid(h)) = 1
           /\ Paid(h)[1].arg = (CASE req[h].mode = "qa" -> "0.01"
                                  [] req[h].mode = "summary" -> "0.05"
                                  [] req[h].mode = "auto" -> "0.05")
           /\ \A k \in At(h, "fetch") : \E j \in At(h, "requirePayment") : j < k

\* C2 witness: a qa invocation that paid 0.01 and has been answered by the
\* backend.
C2_Witness ==
    \E h \in Handlers :
        /\ IsAskRag(req[h]) /\ req[h].mode = "qa"
        /\ pc[h] = "done" /\ Asked(h) # <<>> /\ Paid(h)[1].arg = "0.01"

\* C3: when the payment collaborator denies or fails, the backend gets no call
\* for that invocation and the caller gets one error envelope that carries the
\* collaborator's reason and differs from every backend-failure envelope.
C3_PaymentFailureClosed ==
    \A h \in Handlers :
        GateFailed(h)
        => /\ Asked(h) = <<>>
           /\ pc[h] = "done"
           /\ OneEnvelope(h)
           /\ IsError(Reply(h)) /\ ~IsResult(Reply(h))
           /\ \A k \in At(h, "paymentFailed") :
                 Contains(Reply(h).error.message, log[h][k].arg)
           /\ Reply(h) \notin BackendFailureEnvelopes

\* C3 witness: a denied invocation, and a backend failure of another one.
C3_Witness ==
    \E h, g \in Handlers :
        /\ GateFailed(h) /\ pc[h] = "done"
        /\ BackendFailed(g) /\ pc[g] = "done"

\* C4: when the backend returns a non-2xx status or fails in transport after
\* a successful authorization, the caller gets an error envelope with the
\* request id that is no payment error, and payment was requested once only.
C4_BackendFailureEnvelope ==
    \A h \in Handlers :
        BackendFailed(h)
        => /\ pc[h] = "done"
           /\ OneEnvelope(h)
           /\ IsError(Reply(h)) /\ ~IsResult(Reply(h))
           /\ Reply(h).id = req[h].id
           /\ \A reason \in PaymentFailures :
                 Reply(h) # PaymentErrorEnvelope(req[h].id, reason)
           /\ Reply(h) \in BackendFailureEnvelopes
           /\ Len(Paid(h)) = 1

\* C4 witness: both kinds of backend failure, each after a successful gate.
C4_Witness ==
    \E h, g \in Handlers :
        /\ GateOk(h) /\ Calls(log[h], "fetchFailed") # <<>>
        /\ GateOk(g) /\ Calls(log[g], "fetchStatus") # <<>> /\ BackendFailed(g)
        /\ req[h].id # Undef /\ req[g].id # Undef

\* C5: a reply to initialize, tools/list or tools/call carries the id of its
\* request, on every outcome; notifications/initialized gets a response
\* without a body.
C5_IdEchoed ==
    \A h \in Handlers :
        pc[h] = "done"
        => /\ req[h].method \in {"initialize", "tools/list", "tools/call"}
              => OneEnvelope(h) /\ Reply(h).id = req[h].id
           /\ req[h].method = "notifications/initialized"
              => Len(Sent(h)) = 1 /\ Sent(h)[1].arg.body = <<>>

\* C5 witness: a notification has been acknowledged and a tools/call with an
\* id has ended in an error of the outer catch.
C5_Witness ==
    \E h, g \in Handlers :
        /\ pc[h] = "done" /\ req[h].method = "notifications/initialized"
        /\ pc[g] = "done" /\ req[g].method = "tools/call" /\ req[g].id = "2"
        /\ BackendFailed(g)

\* C6: every envelope the gateway emits holds exactly one of result and error.
C6_ResultXorError ==
    \A h \in Handlers :
        \A k \in At(h, "send") :
            \A n \in 1..Len(log[h][k].arg.body) :
                IsResult(log[h][k].arg.body[n]) # IsError(log[h][k].arg.body[n])

\* C6 witness: an error envelope and a result envelope have been emitted.
C6_Witness ==
    \E h, g \in Handlers :
        /\ pc[h] = "done" /\ OneEnvelope(h) /\ IsError(Reply(h))
        /\ pc[g] = "done" /\ OneEnvelope(g) /\ IsResult(Reply(g))
        /\ IsAskRag(req[g])

\* A fault was raised while handler h processed its request: destructuring a
\* missing params or arguments, a payment failure, a backend failure, or an
\* unparsable backend body.
Faulted(h) ==
    \/ req[h].method = "tools/call" /\ ~req[h].hasParams
    \/ req[h].method = "tools/call" /\ req[h].hasParams
          /\ req[h].name = "ask_rag" /\ ~req[h].hasArgs
    \/ GateFailed(h)
    \/ BackendFailed(h)
    \/ Calls(log[h], "jsonFailed") # <<>>

\* Handler h has answered its request.
Responded(h) == pc[h] = "done" /\ Len(Sent(h)) = 1

\* C7: every request that reaches the dispatcher eventually gets a response
\* when the collaborators return or fail, and the response to a request whose
\* processing raised a fault is an error envelope with the id of the request.
C7_EveryRequestAnswered ==
    /\ \A h \in Handlers : (pc[h] # "idle") ~> Responded(h)
    /\ [](\A h \in Handlers :
            (Faulted(h) /\ pc[h] # "idle")
            => /\ Responded(h)
               /\ OneEnvelope(h)
               /\ IsError(Reply(h)) /\ ~IsResult(Reply(h))
               /\ Reply(h).id = req[h].id
               /\ Reply(h).error.code \in {InternalError, MethodNotFound}
               /\ Len(Reply(h).error.message) > 0)

\* C7 witness: a request with an id whose backend body could not be parsed
\* has been answered, and so has one without an arguments object.
C7_Witness ==
    \E h, g \in Handlers :
        /\ Calls(log[h], "jsonFailed") # <<>> /\ Responded(h) /\ req[h].id = "1"
        /\ req[g].method = "tools/call" /\ req[g].hasParams
        /\ req[g].name = "ask_rag" /\ ~req[g].hasArgs /\ Responded(g)

\* C8: an ask_rag call whose mode is present and is none of qa, summary, auto
\* fails with an error envelope of the invalid-params code (-32602), and
\* neither the payment collaborator nor the backend is called for it.
C8_UnknownModeRejected ==
    \A h \in Handlers :
        (pc[h] # "idle" /\ IsAskRag(req[h])
            /\ req[h].mode \notin {Undef, "qa", "summary", "auto"})
        => /\ Paid(h) = <<>>
           /\ Asked(h) = <<>>
           /\ pc[h] = "done"
           /\ OneEnvelope(h)
           /\ IsError(Reply(h))
           /\ Reply(h).error.code = -32602

\* C9: an ask_rag call whose question is absent or empty fails with an error
\* envelope, and neither the payment collaborator nor the backend is called
\* for it.
C9_QuestionRequired ==
    \A h \in Handlers :
        (pc[h] # "idle" /\ IsAskRag(req[h]) /\ req[h].question \in {Undef, ""})
        => /\ Paid(h) = <<>>
           /\ Asked(h) = <<>>
           /\ pc[h] = "done"
           /\ OneEnvelope(h)
           /\ IsError(Reply(h))

\* r names a tool other than ask_rag, or a method the dispatcher does not know.
IsUnknown(r) ==
    \/ r.method = "tools/call" /\ r.hasParams /\ r.name # "ask_rag"
    \/ r.method \notin {"initialize", "notifications/initialized",
                        "tools/list", "tools/call"}

\* C10: a tools/call of another tool than ask_rag, and a request of an unknown
\* method, gets an error envelope with code -32601 (not -32603), and neither
\* the payment collaborator nor the backend is called for it.
C10_UnknownIsNotFound ==
    \A h \in Handlers :
        (pc[h] # "idle" /\ IsUnknown(req[h]))
        => /\ pc[h] = "done"
           /\ OneEnvelope(h)
           /\ IsError(Reply(h)) /\ ~IsResult(Reply(h))
           /\ Reply(h).error.code = -32601
           /\ Reply(h).error.code # InternalError
           /\ Reply(h).id = req[h].id
           /\ Paid(h) = <<>>
           /\ Asked(h) = <<>>
           /\ Len(log[h]) = 1

\* C10 witness: an unknown tool called with arguments, and an unknown method,
\* have been answered.
C10_Witness ==
    \E h, g \in Handlers :
        /\ pc[h] = "done" /\ req[h].method = "tools/call"
        /\ req[h].name = "other_tool" /\ req[h].hasArgs
        /\ pc[g] = "done" /\ req[g].method = "resources/list"

\* C11: tools/list always answers with exactly one tool, ask_rag, whose schema
\* requires question and allows mode in qa, summary, auto with default auto,
\* and it never calls the payment gate, whatever the payment history is.
C11_ToolsListUngated ==
    \A h \in Handlers :
        (pc[h] # "idle" /\ req[h].method = "tools/list")
        => /\ pc[h] = "done"
           /\ OneEnvelope(h)
           /\ IsResult(Reply(h)) /\ ~IsError(Reply(h))
           /\ Len(Reply(h).result.tools) = 1
           /\ LET tool == Reply(h).result.tools[1]
                  mode == tool.inputSchema.properties.mode
              IN /\ tool.name = "ask_rag"
                 /\ tool.inputSchema.required = <<"question">>
                 /\ "question" \in DOMAIN tool.inputSchema.properties
                 /\ {mode.enum[k] : k \in 1..Len(mode.enum)} = {"qa", "summary", "auto"}
                 /\ mode.default = "auto"
           /\ Paid(h) = <<>>
           /\ Len(log[h]) = 1

\* C11 witness: tools/list was answered although the only payment ever
\* requested was denied.
C11_Witness ==
    \E h, g \in Handlers :
        /\ pc[h] = "done" /\ req[h].method = "tools/list"
        /\ GateFailed(g)
        /\ \A k \in Handlers : ~GateOk(k)

\* C12: an ask_rag call without a mode is priced and forwarded as auto: 0.05
\* is requested from the payment collaborator and the backend gets mode auto.
C12_ModeDefaultsToAuto ==
    \A h \in Handlers :
        (pc[h] # "idle" /\ IsAskRag(req[h]) /\ req[h].mode = Undef)
        => /\ Len(Paid(h)) = 1
           /\ Paid(h)[1].arg = "0.05"
           /\ \A k \in At(h, "fetch") : log[h][k].arg.mode = "auto"

\* C12 witness: a call without a mode has paid and reached the backend.
C12_Witness ==
    \E h \in Handlers :
        /\ IsAskRag(req[h]) /\ req[h].mode = Undef
        /\ Asked(h) # <<>> /\ Asked(h)[1].arg.mode = "auto"

\* Handler h is suspended at an await.
Suspended(h) == pc[h] \in {"awaitPayment", "awaitFetch", "awaitJson"}

\* The envelope the outcomes of handler h's own collaborator calls, and its
\* own request, call for.
OwnReply(h) ==
    IF GateFailed(h)
    THEN PaymentErrorEnvelope(req[h].id, Calls(log[h], "paymentFailed")[1].arg)
    ELSE IF Calls(log[h], "fetchFailed") # <<>>
    THEN CatchEnvelope(req[h], FetchFailureMessage)
    ELSE IF BackendFailed(h)
    THEN CatchEnvelope(req[h], BackendStatusMessage(Calls(log[h], "fetchStatus")[1].arg))
    ELSE IF Calls(log[h], "jsonFailed") # <<>>
    THEN CatchEnvelope(req[h], JsonFailureMessage)
    ELSE ResultEnvelope(req[h].id,
            AskRagResult(req[h].question, Calls(log[h], "backendAnswer")[1].arg))

\* The step leaves handler h as it is.
Untouched(h) == pc'[h] = pc[h] /\ req'[h] = req[h] /\ log'[h] = log[h]

\* C13: under every interleaving of concurrent invocations each response
\* carries the id of its own request and is decided by the payment outcome
\* and backend reply of its own invocation; a step of one invocation leaves
\* the others as they are; and a suspended invocation can always go on,
\* whatever the others do.
C13_ConcurrentIndependent ==
    /\ [](\A h \in Handlers :
            (pc[h] = "done" /\ OneEnvelope(h))
            => /\ Reply(h).id = req[h].id
               /\ Paid(h) # <<>> => Reply(h) = OwnReply(h))
    /\ [][\A h \in Handlers :
            ~Untouched(h) => \A g \in Handlers \ {h} : Untouched(g)]_vars
    /\ [](\A h \in Handlers : Suspended(h) => ENABLED Resume(h))

\* C13 witness: two invocations with different ids were in flight together
\* and completed in the opposite order of their payment outcomes: one was
\* denied, the other answered by the backend.
C13_Witness ==
    \E h, g \in Handlers :
        /\ IsAskRag(req[h]) /\ IsAskRag(req[g])
        /\ req[h].id = "1" /\ req[g].id = "2"
        /\ pc[h] = "done" /\ GateFailed(h)
        /\ pc[g] = "done" /\ Calls(log[g], "backendAnswer") # <<>>

\* C17: a successful ask_rag result is one text content block that contains
\* the question of the request, the mode the backend reported (not the
\* requested one, when they differ) and the backend's answer, each unmodified.
C17_ResultText ==
    \A h \in Handlers :
        (pc[h] = "done" /\ Calls(log[h], "backendAnswer") # <<>>)
        => LET data == Calls(log[h], "backendAnswer")[1].arg
           IN /\ OneEnvelope(h)
              /\ IsResult(Reply(h)) /\ ~IsError(Reply(h))
              /\ Len(Reply(h).result.content) = 1
              /\ Reply(h).result.content[1].type = "text"
              /\ LET text == Reply(h).result.content[1].text
                 IN /\ Contains(text, req[h].question)
                    /\ Contains(text, data.mode)
                    /\ Contains(text, data.answer)
                    /\ data.mode # ResolvedMode(req[h])
                       => ~Contains(text, ResolvedMode(req[h]))

\* C17 witness: the question 'What is the answer?' asked in mode summary was
\* answered by the backend with {mode: qa, answer: 42}.
C17_Witness ==
    \E h \in Handlers :
        /\ pc[h] = "done"
        /\ req[h].question = "What is the answer?" /\ req[h].mode = "summary"
        /\ Calls(log[h], "backendAnswer") # <<>>
        /\ Calls(log[h], "backendAnswer")[1].arg = [mode |-> "qa", answer |-> "42"]
        /\ Reply(h).result.content[1].text =
              <<"Question: ", "What is the answer?", "\nMode: ", "qa",
                "\n\nAnswer:\n", "42">>

\* C18: no request writes the gateway's module-level state (which holds no
\* per-invocation record, neither while an invocation is suspended nor after
\* its response); the tool descriptor and the price table every request sees
\* are the ones every other request sees.
C18_NoSharedWrites ==
    /\ [][server.state = "listening" => server' = server]_vars
    /\ [](DOMAIN server = {"state", "ATXP_CONNECTION", "exitCode"})
    /\ [](\A h \in Handlers :
            /\ (pc[h] = "done" /\ req[h].method = "tools/list")
               => Reply(h).result.tools = <<AskRagTool>>
            /\ Paid(h) # <<>>
               => Paid(h)[1].arg = prices(ResolvedMode(req[h])))

\* C18 witness: one invocation is suspended on the payment collaborator and
\* another was denied and answered (its caller may be gone), with the
\* gateway's module-level state as it was when it began to listen.
C18_Witness ==
    \E h, g \in Handlers :
        /\ pc[h] = "awaitPayment"
        /\ pc[g] = "done" /\ GateFailed(g)
        /\ server = [state |-> "listening",
                     ATXP_CONNECTION |-> "https://accounts.atxp.ai?connection_token=t",
                     exitCode |-> Undef]

\* The step is the arrival of an initialize request at handler h.
InitializeArrives(h) ==
    pc[h] = "idle" /\ pc'[h] # "idle" /\ req'[h].method = "initialize"

\* C19: initialize has no precondition and is idempotent: every call, in any
\* order with other requests, returns the same fixed descriptor, and a call
\* changes nothing but its own handler.
C19_InitializeIdempotent ==
    /\ [](\A h \in Handlers :
            (pc[h] # "idle" /\ req[h].method = "initialize")
            => /\ pc[h] = "done"
               /\ OneEnvelope(h)
               /\ Reply(h) =
                    [jsonrpc |-> "2.0", id |-> req[h].id,
                     result |->
                        [protocolVersion |-> "2024-11-05",
                         capabilities |-> [tools |-> {}],
                         serverInfo |-> [name |-> "interview-rag-server",
                                         version |-> "1.0.0"]]]
               /\ Len(log[h]) = 1)
    /\ [](\A h \in Handlers :
            (pc[h] = "idle" /\ server.state = "listening")
            => ENABLED (\E id \in Ids :
                  Receive(h, MkReq("initialize", id, FALSE, Undef, FALSE, Undef, Undef))))
    /\ [][\A h \in Handlers :
            InitializeArrives(h)
            => /\ server' = server
               /\ \A g \in Handlers \ {h} : Untouched(g)]_vars

\* C19 witness: initialize was called twice, the second time after the first
\* was answered.
C19_Witness ==
    \E h, g \in Handlers :
        /\ h # g
        /\ pc[h] = "done" /\ req[h].method = "initialize"
        /\ pc[g] = "done" /\ req[g].method = "initialize"

\* C20: a request gets at most one response on every path: the handler stops
\* after the payment-failure envelope (no backend call, no second envelope),
\* and a handler that has ended has sent exactly one response, as its last
\* act.
C20_AtMostOneResponse ==
    \A h \in Handlers :
        /\ Len(Sent(h)) <= 1
        /\ GateFailed(h)
           => pc[h] = "done" /\ Asked(h) = <<>> /\ Len(Sent(h)) = 1
        /\ pc[h] = "done"
           => Len(Sent(h)) = 1 /\ log[h][Len(log[h])].op = "send"
        /\ Sent(h) # <<>> => pc[h] = "done"

\* C20 witness: a payment failure and a fault of the outer catch have each
\* been answered.
C20_Witness ==
    \E h, g \in Handlers :
        /\ pc[h] = "done" /\ GateFailed(h)
        /\ pc[g] = "done" /\ Calls(log[g], "jsonFailed") # <<>>

-----------------------------------------------------------------------------
(* The caller: main() of the agent, one run of the process after another.  *)
(* Run k's one tools/call is served by handler k of the gateway.           *)

\* askRagService.toolName, the prompt and getArguments(prompt) of main, as the
\* tools/call request client.callTool sends with the id the client gives it.
CallToolRequest(id) ==
    MkReq("tools/call", id, TRUE, "ask_rag", TRUE,
          "What is the structure followed by the speaker?", "auto")

\* A run of the caller process.  pc: connecting (await atxpClient), calling
\* (await client.callTool), exited.  connects and calls count the calls of
\* atxpClient and client.callTool; request is the tools/call put on the wire.
Run(pcOf, value, connects, connected, calls, request, exitCode, out) ==
    [pc |-> pcOf, cred |-> value, connects |-> connects, connected |-> connected,
     calls |-> calls, request |-> request, exitCode |-> exitCode, out |-> out]

Runs == 1..Len(caller)

\* No run of the caller is going on.
CallerStopped ==
    IF caller = <<>> THEN TRUE ELSE caller[Len(caller)].pc = "exited"

\* The process starts: main reads ATXP_CONNECTION_STRING, exits with code 1
\* when it is missing or empty, and otherwise calls atxpClient.
CallerStart(value) ==
    /\ CallerStopped
    /\ Len(caller) < NumHandlers
    /\ caller' = Append(caller,
          IF Falsy(value)
          THEN Run("exited", value, 0, FALSE, 0, NoRequest, "1",
                   <<"ATXP_CONNECTION_STRING not found in .env">>)
          ELSE Run("connecting", value, 1, FALSE, 0, NoRequest, Undef, <<>>))
    /\ UNCHANGED <<pc, req, log, server>>

\* atxpClient resolves (the gateway listens and answered the handshake):
\* main goes on to client.callTool, once.
ConnectResolves(id) ==
    /\ caller # <<>>
    /\ caller[Len(caller)].pc = "connecting"
    /\ server.state = "listening"
    /\ IsResult(Dispatch(MkReq("initialize", "0", FALSE, Undef, FALSE, Undef, Undef))
                    .log[1].arg.body[1])
    /\ caller' = [caller EXCEPT ![Len(caller)] =
                    [@ EXCEPT !.pc = "calling", !.connected = TRUE,
                              !.calls = @ + 1, !.request = CallToolRequest(id)]]
    /\ UNCHANGED <<pc, req, log, server>>

\* atxpClient rejects: main().catch prints the fatal error and exits with 1.
ConnectRejects ==
    /\ caller # <<>>
    /\ caller[Len(caller)].pc = "connecting"
    /\ caller' = [caller EXCEPT ![Len(caller)] =
                    [@ EXCEPT !.pc = "exited", !.exitCode = "1",
                              !.out = @ \o <<"Fatal error">>]]
    /\ UNCHANGED <<pc, req, log, server>>

\* The tools/call of run k arrives at the gateway.
CallArrives(k) ==
    /\ k \in Runs
    /\ caller[k].calls > 0
    /\ Receive(k, caller[k].request)

\* client.callTool resolves with the result of the gateway's reply: main
\* prints it and returns, and the process ends with code 0.
CallToolResolves(k) ==
    /\ k \in Runs
    /\ caller[k].pc = "calling"
    /\ pc[k] = "done" /\ OneEnvelope(k) /\ IsResult(Reply(k))
    /\ caller' = [caller EXCEPT ![k] =
                    [@ EXCEPT !.pc = "exited", !.exitCode = "0",
                              !.out = @ \o <<"result successful!", "Result:">>]]
    /\ UNCHANGED <<pc, req, log, server>>

\* Mutant of CallToolRejects: the catch prints the error and does not exit,
\* so main returns and the process ends with code 0.
CallToolRejectsSwallowed(k) ==
    /\ k \in Runs
    /\ caller[k].pc = "calling"
    /\ pc[k] = "done" /\ OneEnvelope(k) /\ IsError(Reply(k))
    /\ caller' = [caller EXCEPT ![k] =
                    [@ EXCEPT !.pc = "exited", !.exitCode = "0",
                              !.out = @ \o <<"Error with">>]]
    /\ UNCHANGED <<pc, req, log, server>>

\* Mutant of CallToolRejects: the catch calls the tool again.
CallToolRejectsRetrying(k) ==
    /\ k \in Runs
    /\ caller[k].pc = "calling"
    /\ pc[k] = "done" /\ OneEnvelope(k) /\ IsError(Reply(k))
    /\ caller[k].calls < 2
    /\ caller' = [caller EXCEPT ![k] =
                    [@ EXCEPT !.calls = @ + 1, !.out = @ \o <<"Error with">>]]
    /\ UNCHANGED <<pc, req, log, server>>

\* client.callTool rejects with the error of the gateway's reply: the catch
\* prints it and exits with 1.
CallToolRejects(k) ==
    /\ k \in Runs
    /\ caller[k].pc = "calling"
    /\ pc[k] = "done" /\ OneEnvelope(k) /\ IsError(Reply(k))
    /\ caller' = [caller EXCEPT ![k] =
                    [@ EXCEPT !.pc = "exited", !.exitCode = "1",
                              !.out = @ \o <<"Error with">>]]
    /\ UNCHANGED <<pc, req, log, server>>

\* client.callTool rejects without a reply (the connection fails, or the
\* process is ended while it waits): the run ends with 1, and the gateway's
\* handler goes on without its caller.
CallToolFails(k) ==
    /\ k \in Runs
    /\ caller[k].pc = "calling"
    /\ caller' = [caller EXCEPT ![k] =
                    [@ EXCEPT !.pc = "exited", !.exitCode = "1",
                              !.out = @ \o <<"Error with">>]]
    /\ UNCHANGED <<pc, req, log, server>>

\* The gateway serving the runs of the caller.
CallerNext ==
    \/ \E value \in EnvValues : GatewayStart(value)
    \/ \E value \in EnvValues : CallerStart(value)
    \/ \E id \in Ids \ {Undef} : ConnectResolves(id)
    \/ ConnectRejects
    \/ \E k \in Handlers :
          \/ CallArrives(k)
          \/ PaymentResolves(k)
          \/ \E reason \in PaymentFailures : PaymentRejects(k, reason)
          \/ \E status \in BackendStatuses : FetchResolves(k, status)
          \/ FetchRejects(k)
          \/ \E data \in BackendAnswers : JsonResolves(k, data)
          \/ JsonRejects(k)
          \/ CallToolResolves(k)
          \/ CallToolRejects(k)
          \/ CallToolFails(k)

CallerSpec == Init /\ [][CallerNext]_vars

\* Run k has ended.
Exited(k) == caller[k].pc = "exited"

\* Run k printed the line.
Printed(k, line) == Contains(caller[k].out, line)

\* C14: a run of the caller ends as a success (code 0, result printed) only
\* when its tool call returned a result, which takes a passed payment gate and
\* an answering backend; a run whose tool call got an error ends with a
\* non-zero code and the error printed, never with the result.
C14_NoSilentSuccess ==
    \A k \in Runs :
        /\ Exited(k) => caller[k].exitCode \in {"0", "1"}
        /\ (Exited(k) /\ caller[k].exitCode = "0")
           => /\ caller[k].calls = 1
              /\ pc[k] = "done" /\ OneEnvelope(k)
              /\ IsResult(Reply(k)) /\ ~IsError(Reply(k))
              /\ GateOk(k) /\ ~GateFailed(k) /\ ~BackendFailed(k)
              /\ Printed(k, "Result:")
        /\ (Exited(k) /\ caller[k].exitCode = "1")
           => /\ ~Printed(k, "Result:")
              /\ \/ Printed(k, "Error with")
                 \/ Printed(k, "Fatal error")
                 \/ Printed(k, "ATXP_CONNECTION_STRING not found in .env")
        /\ (Exited(k) /\ pc[k] = "done" /\ OneEnvelope(k) /\ IsError(Reply(k)))
           => caller[k].exitCode = "1" /\ Printed(k, "Error with")

\* C14 witness: one run ended with code 1 after a backend failure and a later
\* run ended with code 0 after a result.
C14_Witness ==
    \E k, n \in Runs :
        /\ Exited(k) /\ caller[k].exitCode = "1" /\ BackendFailed(k)
        /\ pc[k] = "done"
        /\ Exited(n) /\ caller[n].exitCode = "0" /\ IsResult(Reply(n))

\* C15: a run calls the tool at most once, after its own handshake; when the
\* payment gate asks for authorization the run ends with an error and without
\* a result, and it does nothing after it has ended; a later success belongs
\* to another run, which starts afresh and connects again.
C15_OneCallPerRun ==
    /\ [](\A k \in Runs :
            /\ caller[k].calls <= 1
            /\ caller[k].connects <= 1
            /\ caller[k].calls = 1 => caller[k].connects = 1 /\ caller[k].connected
            /\ Len(Paid(k)) <= caller[k].calls
            /\ (GateFailed(k) /\ caller[k].pc = "calling") => ENABLED CallToolRejects(k)
            /\ (GateFailed(k) /\ Exited(k))
               => caller[k].exitCode = "1" /\ ~Printed(k, "Result:"))
    /\ [][\A k \in Runs : Exited(k) => caller'[k] = caller[k]]_vars
    /\ [][Len(caller') > Len(caller)
            => /\ caller'[Len(caller')].calls = 0
               /\ ~caller'[Len(caller')].connected
               /\ caller'[Len(caller')].request = NoRequest
               /\ CallerStopped]_vars

\* C15 witness: a run ended on a payment failure after one call, and the next
\* run connected again and got the result.
C15_Witness ==
    \E k, n \in Runs :
        /\ k < n
        /\ Exited(k) /\ GateFailed(k) /\ caller[k].calls = 1
        /\ caller[k].exitCode = "1"
        /\ Exited(n) /\ caller[n].exitCode = "0" /\ caller[n].connected
        /\ pc[n] = "done" /\ IsResult(Reply(n))

\* C16: with a missing or empty connection credential the gateway exits with
\* code 1 and never serves a request, and the caller exits with code 1
\* without calling atxpClient or the tool.
C16_CredentialRequired ==
    /\ (server.state # "loading" /\ Falsy(server.ATXP_CONNECTION))
       => /\ server.state = "exited" /\ server.exitCode = "1"
          /\ \A h \in Handlers : pc[h] = "idle" /\ log[h] = <<>>
    /\ server.state = "listening" => ~Falsy(server.ATXP_CONNECTION)
    /\ \A k \in Runs :
          Falsy(caller[k].cred)
          => /\ Exited(k) /\ caller[k].exitCode = "1"
             /\ caller[k].connects = 0 /\ ~caller[k].connected
             /\ caller[k].calls = 0

\* C16 witness: the gateway was started with an empty credential and the
\* caller without one, and both have exited.
C16_Witness ==
    /\ server.state = "exited" /\ server.ATXP_CONNECTION = ""
    /\ \E k \in Runs : caller[k].cred = Undef /\ Exited(k)

====
